---- MODULE Spec2Model ----
(***************************************************************************)
(* SENTINAL: the SentinalGuard circuit breaker, the ReserveOracleV2 ledger *)
(* and the CRE health-check workflow that feeds them.                      *)
(*                                                                         *)
(* Every transaction is one action: a revert leaves every contract         *)
(* variable unchanged and sets `reverted`.  Events and the pass-through    *)
(* payload fields of a report (totalReservesUSD, totalClaimedUSD,          *)
(* timestamp) carry no behaviour and are left out.  block.timestamp is     *)
(* read in one test only, cs.lastUpdated < ts - 1 of submitProtocolData:   *)
(* a batch takes as input the chains for which that test holds.            *)
(***************************************************************************)
EXTENDS Integers, Sequences, FiniteSets, TLC

(***************************************************************************)
(* Bounds of the model.                                                    *)
(***************************************************************************)
MaxChecks == 2

MaxRegistered == 2

MaxPauseEvents == 3

MaxCycles == 2

(***************************************************************************)
(* Addresses.                                                              *)
(***************************************************************************)
NoAddr == "0x0"

Owner == "owner"

LedgerAddr == "ledger"

GuardAddr == "guard"

ControllerAddr == "controller"

Forwarder == "forwarder"

Stranger == "stranger"

Consumers == {"c1", "c2"}

Names == {"P1", "P2"}

(***************************************************************************)
(* SentinalGuard constants.                                                *)
(***************************************************************************)
SOLVENCY_PAUSE_THRESHOLD == 9000

SOLVENCY_WARN_THRESHOLD == 9500

MAX_WATCHED == 10

CRITICAL == 2

VARIABLES
    \* SentinalGuard
    oracle, globalPaused, currentSeverity, totalPauseEvents,
    registrations, registeredList, totalRegisteredCount, protocolStatus,
    \* ReserveOracleV2
    guard, latestReport, reportHistory, reports,
    totalChecks, totalWarnings, totalCritical, totalAnomalies,
    highestRiskScore, highestRiskCheckNumber,
    previousUtilization, latestProtocolData, trackedProtocols,
    protocolCountPerCheck, chainStats,
    \* the ledger's link to the EmergencyController, and the controller's state
    emergencyController, controllerOracle, isPaused,
    \* the workflow's last returned lastResult, as handed to the backend
    lastResult,
    \* outcome of the last transaction
    reverted

guardGlobalVars == <<globalPaused, currentSeverity>>

guardRegVars == <<registrations, registeredList, totalRegisteredCount>>

guardVars == <<oracle, globalPaused, currentSeverity, totalPauseEvents,
               registrations, registeredList, totalRegisteredCount, protocolStatus>>

reportVars == <<latestReport, reportHistory, reports, totalChecks, totalWarnings,
                totalCritical, totalAnomalies, highestRiskScore, highestRiskCheckNumber>>

protocolVars == <<previousUtilization, latestProtocolData, trackedProtocols,
                  protocolCountPerCheck, chainStats>>

controllerVars == <<emergencyController, controllerOracle, isPaused>>

ledgerVars == <<guard, reportVars, protocolVars, controllerVars>>

vars == <<guardVars, ledgerVars, lastResult, reverted>>

\* A reverted transaction: no contract state changes.
Revert ==
    /\ reverted' = TRUE
    /\ UNCHANGED <<guardVars, ledgerVars, lastResult>>

(***************************************************************************)
(* SentinalGuard                                                           *)
(***************************************************************************)
ZeroStatus == [paused |-> FALSE, warning |-> FALSE, solvency |-> 0, lastCheckNumber |-> 0]

ZeroRegistration == [active |-> FALSE, watchedProtocols |-> <<>>]

\* The loop of isSafe over reg.watchedProtocols, from index i on.
RECURSIVE isSafeFrom(_, _)
isSafeFrom(watched, i) ==
    IF i > Len(watched) THEN TRUE
    ELSE IF protocolStatus[watched[i]].paused THEN FALSE
    ELSE isSafeFrom(watched, i + 1)

\* Variant of isSafe that skips the globalPaused test.
isSafe_IgnoresGlobal(protocol) ==
    IF ~registrations[protocol].active THEN TRUE
    ELSE isSafeFrom(registrations[protocol].watchedProtocols, 1)

\* Variant of isSafe that blocks unregistered callers while paused.
isSafe_FailClosed(protocol) ==
    IF globalPaused THEN FALSE
    ELSE IF ~registrations[protocol].active THEN TRUE
    ELSE isSafeFrom(registrations[protocol].watchedProtocols, 1)

isSafe(protocol) ==
    IF ~registrations[protocol].active THEN TRUE
    ELSE IF globalPaused THEN FALSE
    ELSE isSafeFrom(registrations[protocol].watchedProtocols, 1)

isProtocolSafe(protocolName) ==
    IF globalPaused THEN FALSE ELSE ~protocolStatus[protocolName].paused

isGloballyPaused == globalPaused

register_Additive(sender, watchedProtocols) ==
    IF Len(watchedProtocols) > MAX_WATCHED THEN Revert
    ELSE
        /\ registeredList' = IF ~registrations[sender].active
                             THEN Append(registeredList, sender)
                             ELSE registeredList
        /\ totalRegisteredCount' = IF ~registrations[sender].active
                                   THEN totalRegisteredCount + 1
                                   ELSE totalRegisteredCount
        /\ registrations' = [registrations EXCEPT ![sender] =
                                [active |-> TRUE,
                                 watchedProtocols |->
                                     registrations[sender].watchedProtocols
                                         \o watchedProtocols]]
        /\ reverted' = FALSE
        /\ UNCHANGED <<oracle, guardGlobalVars, totalPauseEvents, protocolStatus,
                       ledgerVars, lastResult>>

register_NoLimit(sender, watchedProtocols) ==
    IF FALSE THEN Revert
    ELSE
        /\ registeredList' = IF ~registrations[sender].active
                             THEN Append(registeredList, sender)
                             ELSE registeredList
        /\ totalRegisteredCount' = IF ~registrations[sender].active
                                   THEN totalRegisteredCount + 1
                                   ELSE totalRegisteredCount
        /\ registrations' = [registrations EXCEPT ![sender] =
                                [active |-> TRUE, watchedProtocols |-> watchedProtocols]]
        /\ reverted' = FALSE
        /\ UNCHANGED <<oracle, guardGlobalVars, totalPauseEvents, protocolStatus,
                       ledgerVars, lastResult>>

\* Variant of register that counts every call, a repeated one included.
register_AlwaysCounts(sender, watchedProtocols) ==
    IF Len(watchedProtocols) > MAX_WATCHED THEN Revert
    ELSE
        /\ registeredList' = IF ~registrations[sender].active
                             THEN Append(registeredList, sender)
                             ELSE registeredList
        /\ totalRegisteredCount' = totalRegisteredCount + 1
        /\ registrations' = [registrations EXCEPT ![sender] =
                                [active |-> TRUE, watchedProtocols |-> watchedProtocols]]
        /\ reverted' = FALSE
        /\ UNCHANGED <<oracle, guardGlobalVars, totalPauseEvents, protocolStatus,
                       ledgerVars, lastResult>>

register(sender, watchedProtocols) ==
    IF Len(watchedProtocols) > MAX_WATCHED THEN Revert
    ELSE
        /\ registeredList' = IF ~registrations[sender].active
                             THEN Append(registeredList, sender)
                             ELSE registeredList
        /\ totalRegisteredCount' = IF ~registrations[sender].active
                                   THEN totalRegisteredCount + 1
                                   ELSE totalRegisteredCount
        /\ registrations' = [registrations EXCEPT ![sender] =
                                [active |-> TRUE, watchedProtocols |-> watchedProtocols]]
        /\ reverted' = FALSE
        /\ UNCHANGED <<oracle, guardGlobalVars, totalPauseEvents, protocolStatus,
                       ledgerVars, lastResult>>

\* Variant of deregister that leaves the registration active.
deregister_KeepsActive(sender) ==
    IF ~registrations[sender].active THEN Revert
    ELSE
        /\ UNCHANGED registrations
        /\ totalRegisteredCount' = totalRegisteredCount - 1
        /\ reverted' = FALSE
        /\ UNCHANGED <<oracle, guardGlobalVars, totalPauseEvents, registeredList,
                       protocolStatus, ledgerVars, lastResult>>

deregister(sender) ==
    IF ~registrations[sender].active THEN Revert
    ELSE
        /\ registrations' = [registrations EXCEPT ![sender].active = FALSE]
        /\ totalRegisteredCount' = totalRegisteredCount - 1
        /\ reverted' = FALSE
        /\ UNCHANGED <<oracle, guardGlobalVars, totalPauseEvents, registeredList,
                       protocolStatus, ledgerVars, lastResult>>

\* Variant of updateGlobalStatus that never clears the global pause.
updateGlobalStatusBody_Sticky(severity) ==
    /\ currentSeverity' = severity
    /\ globalPaused' = (globalPaused \/ severity = CRITICAL)
    /\ totalPauseEvents' = IF (severity = CRITICAL) /\ ~globalPaused
                           THEN totalPauseEvents + 1
                           ELSE totalPauseEvents

\* Variant of updateGlobalStatus that does not record the severity.
updateGlobalStatusBody_KeepsSeverity(severity) ==
    /\ UNCHANGED currentSeverity
    /\ globalPaused' = (severity = CRITICAL)
    /\ totalPauseEvents' = IF (severity = CRITICAL) /\ ~globalPaused
                           THEN totalPauseEvents + 1
                           ELSE totalPauseEvents

\* Variant of updateGlobalStatus that pauses from WARNING on.
updateGlobalStatusBody_PausesAtWarning(severity) ==
    /\ currentSeverity' = severity
    /\ globalPaused' = (severity >= 1)
    /\ totalPauseEvents' = IF (severity >= 1) /\ ~globalPaused
                           THEN totalPauseEvents + 1
                           ELSE totalPauseEvents

\* Body of updateGlobalStatus, after the onlyOracle check.
updateGlobalStatusBody(severity) ==
    /\ currentSeverity' = severity
    /\ globalPaused' = (severity = CRITICAL)
    /\ totalPauseEvents' = IF (severity = CRITICAL) /\ ~globalPaused
                           THEN totalPauseEvents + 1
                           ELSE totalPauseEvents

\* Variant of updateGlobalStatus that takes the push from any caller.
updateGlobalStatus_AnyCaller(sender, severity) ==
    /\ updateGlobalStatusBody(severity)
    /\ reverted' = FALSE
    /\ UNCHANGED <<oracle, guardRegVars, protocolStatus, ledgerVars, lastResult>>

updateGlobalStatus(sender, severity) ==
    IF sender # oracle THEN Revert
    ELSE
        /\ updateGlobalStatusBody(severity)
        /\ reverted' = FALSE
        /\ UNCHANGED <<oracle, guardRegVars, protocolStatus, ledgerVars, lastResult>>

\* Variant of the status update that pauses at the warning threshold.
statusPausesAtWarn(solvency, checkNumber) ==
    [paused |-> solvency < SOLVENCY_WARN_THRESHOLD,
     warning |-> solvency < SOLVENCY_WARN_THRESHOLD,
     solvency |-> solvency,
     lastCheckNumber |-> checkNumber]

\* Variant of the status update whose warning flag is cleared by a pause.
statusWarnsOnlyUnpaused(solvency, checkNumber) ==
    [paused |-> solvency < SOLVENCY_PAUSE_THRESHOLD,
     warning |-> solvency < SOLVENCY_WARN_THRESHOLD
                 /\ ~(solvency < SOLVENCY_PAUSE_THRESHOLD),
     solvency |-> solvency,
     lastCheckNumber |-> checkNumber]

\* The ProtocolStatus that updateProtocolStatus writes.
newStatus(solvency, checkNumber) ==
    [paused |-> solvency < SOLVENCY_PAUSE_THRESHOLD,
     warning |-> solvency < SOLVENCY_WARN_THRESHOLD,
     solvency |-> solvency,
     lastCheckNumber |-> checkNumber]

\* Variant of the status update that counts every update that pauses.
statusAfter_CountsRepeats(ps, events, name, solvency, checkNumber) ==
    [ps |-> [ps EXCEPT ![name] = newStatus(solvency, checkNumber)],
     events |-> IF newStatus(solvency, checkNumber).paused
                THEN events + 1
                ELSE events]

\* Body of updateProtocolStatus on a status map ps and a pause-event count:
\* the pair it leaves behind.
statusAfter(ps, events, name, solvency, checkNumber) ==
    [ps |-> [ps EXCEPT ![name] = newStatus(solvency, checkNumber)],
     events |-> IF newStatus(solvency, checkNumber).paused /\ ~ps[name].paused
                THEN events + 1
                ELSE events]

updateProtocolStatus(sender, name, solvency, checkNumber) ==
    IF sender # oracle THEN Revert
    ELSE
        /\ protocolStatus' =
               statusAfter(protocolStatus, totalPauseEvents, name, solvency, checkNumber).ps
        /\ totalPauseEvents' =
               statusAfter(protocolStatus, totalPauseEvents, name, solvency, checkNumber).events
        /\ reverted' = FALSE
        /\ UNCHANGED <<oracle, guardGlobalVars, guardRegVars, ledgerVars, lastResult>>

\* The loop of _countAffected over _registeredList, from index i on.
RECURSIVE countAffectedFrom(_, _)
countAffectedFrom(name, i) ==
    IF i > Len(registeredList) THEN 0
    ELSE (IF /\ registrations[registeredList[i]].active
             /\ \E j \in 1..Len(registrations[registeredList[i]].watchedProtocols) :
                    registrations[registeredList[i]].watchedProtocols[j] = name
          THEN 1 ELSE 0)
         + countAffectedFrom(name, i + 1)

_countAffected(name) == countAffectedFrom(name, 1)

setOracle(sender, _oracle) ==
    IF sender # Owner \/ _oracle = NoAddr THEN Revert
    ELSE
        /\ oracle' = _oracle
        /\ reverted' = FALSE
        /\ UNCHANGED <<guardGlobalVars, totalPauseEvents, guardRegVars, protocolStatus,
                       ledgerVars, lastResult>>

\* Variant of manualUnpause whose empty name leaves the global pause.
manualUnpause_KeepsGlobal(sender, protocolName) ==
    IF sender # Owner THEN Revert
    ELSE
        /\ IF protocolName = ""
           THEN UNCHANGED <<globalPaused, protocolStatus>>
           ELSE /\ protocolStatus' = [protocolStatus EXCEPT ![protocolName].paused = FALSE]
                /\ UNCHANGED globalPaused
        /\ reverted' = FALSE
        /\ UNCHANGED <<oracle, currentSeverity, totalPauseEvents, guardRegVars,
                       ledgerVars, lastResult>>

\* Variant of manualUnpause that deletes the status of the protocol.
manualUnpause_DeletesStatus(sender, protocolName) ==
    IF sender # Owner THEN Revert
    ELSE
        /\ IF protocolName = ""
           THEN /\ globalPaused' = FALSE
                /\ UNCHANGED protocolStatus
           ELSE /\ protocolStatus' = [protocolStatus EXCEPT ![protocolName] = ZeroStatus]
                /\ UNCHANGED globalPaused
        /\ reverted' = FALSE
        /\ UNCHANGED <<oracle, currentSeverity, totalPauseEvents, guardRegVars,
                       ledgerVars, lastResult>>

\* protocolName "" unpauses globally, any other name that protocol.
manualUnpause(sender, protocolName) ==
    IF sender # Owner THEN Revert
    ELSE
        /\ IF protocolName = ""
           THEN /\ globalPaused' = FALSE
                /\ UNCHANGED protocolStatus
           ELSE /\ protocolStatus' = [protocolStatus EXCEPT ![protocolName].paused = FALSE]
                /\ UNCHANGED globalPaused
        /\ reverted' = FALSE
        /\ UNCHANGED <<oracle, currentSeverity, totalPauseEvents, guardRegVars,
                       ledgerVars, lastResult>>

(***************************************************************************)
(* ReserveOracleV2                                                         *)
(***************************************************************************)
ZeroReport ==
    [globalRatio |-> 0, riskScore |-> 0, checkNumber |-> 0, severity |-> 0,
     anomalyDetected |-> FALSE]

ZeroProtocolReport ==
    [name |-> "", protocolType |-> "", chain |-> "", claimed |-> 0, actual |-> 0,
     solvencyRatio |-> 0, utilization |-> 0, velocityBps |-> 0, velocityNegative |-> FALSE]

ZeroChainStats == [totalReserves |-> 0, totalClaimed |-> 0, protocolCount |-> 0]

\* reporter is set to the deployer by the constructor.
reporter == Owner

\* A Solidity mapping read: the zero value for a key never written.
Get(m, k, zero) == IF k \in DOMAIN m THEN m[k] ELSE zero

Put(m, k, v) == [x \in DOMAIN m \cup {k} |-> IF x = k THEN v ELSE m[x]]

getReport(checkNumber) == Get(reports, checkNumber, ZeroReport)

getLatestReport == latestReport

\* Variant of the guard call without try/catch: a refusal blocks the report.
pushGlobalStatus_Propagates(severity) ==
    /\ guard # NoAddr => LedgerAddr = oracle
    /\ IF guard # NoAddr
       THEN updateGlobalStatusBody(severity)
       ELSE UNCHANGED <<globalPaused, currentSeverity, totalPauseEvents>>

\* try ISentinalGuard(guard).updateGlobalStatus(severity) {} catch {}
\* The guard sees the ledger as msg.sender; its revert is swallowed.
pushGlobalStatus(severity) ==
    IF guard # NoAddr /\ LedgerAddr = oracle
    THEN updateGlobalStatusBody(severity)
    ELSE UNCHANGED <<globalPaused, currentSeverity, totalPauseEvents>>

\* EmergencyController._pauseProtocol: pauses once, a repeated call changes
\* nothing.
_pauseProtocol == isPaused' = TRUE

\* EmergencyController.executeEmergency, after its onlyOracle check.
executeEmergency(riskScore, ratio) ==
    IF riskScore >= 80 \/ ratio < 8000
    THEN _pauseProtocol
    ELSE UNCHANGED isPaused

\* The controller sees the ledger as msg.sender; the low-level call returns
\* success = false when the controller reverts, and the ledger goes on.
_triggerEmergency(report) ==
    IF emergencyController # NoAddr /\ LedgerAddr = controllerOracle
    THEN executeEmergency(report.riskScore, report.globalRatio)
    ELSE UNCHANGED isPaused

\* reports[report.checkNumber] = report
storeReport(report) == Put(reports, report.checkNumber, report)

\* Variant of _processReport whose peak moves to the latest report that
\* reaches it.
_processReport_LatestPeak(report) ==
    /\ latestReport' = report
    /\ reports' = storeReport(report)
    /\ reportHistory' = Append(reportHistory, report)
    /\ totalChecks' = totalChecks + 1
    /\ totalWarnings' = IF report.severity = 1 THEN totalWarnings + 1 ELSE totalWarnings
    /\ totalCritical' = IF report.severity = 2 THEN totalCritical + 1 ELSE totalCritical
    /\ totalAnomalies' = IF report.anomalyDetected THEN totalAnomalies + 1 ELSE totalAnomalies
    /\ highestRiskScore' = IF report.riskScore >= highestRiskScore
                           THEN report.riskScore ELSE highestRiskScore
    /\ highestRiskCheckNumber' = IF report.riskScore >= highestRiskScore
                                 THEN report.checkNumber ELSE highestRiskCheckNumber
    /\ pushGlobalStatus(report.severity)
    /\ IF report.severity = 2 \/ report.riskScore >= 80
       THEN _triggerEmergency(report)
       ELSE UNCHANGED isPaused
    /\ UNCHANGED <<oracle, guardRegVars, protocolStatus, guard, protocolVars,
                   emergencyController, controllerOracle>>

_processReport(report) ==
    /\ latestReport' = report
    /\ reports' = storeReport(report)
    /\ reportHistory' = Append(reportHistory, report)
    /\ totalChecks' = totalChecks + 1
    /\ totalWarnings' = IF report.severity = 1 THEN totalWarnings + 1 ELSE totalWarnings
    /\ totalCritical' = IF report.severity = 2 THEN totalCritical + 1 ELSE totalCritical
    /\ totalAnomalies' = IF report.anomalyDetected THEN totalAnomalies + 1 ELSE totalAnomalies
    /\ highestRiskScore' = IF report.riskScore > highestRiskScore
                           THEN report.riskScore ELSE highestRiskScore
    /\ highestRiskCheckNumber' = IF report.riskScore > highestRiskScore
                                 THEN report.checkNumber ELSE highestRiskCheckNumber
    /\ pushGlobalStatus(report.severity)
    /\ IF report.severity = 2 \/ report.riskScore >= 80
       THEN _triggerEmergency(report)
       ELSE UNCHANGED isPaused
    /\ UNCHANGED <<oracle, guardRegVars, protocolStatus, guard, protocolVars,
                   emergencyController, controllerOracle>>

onReport(sender, report) ==
    IF sender # Forwarder THEN Revert
    ELSE
        /\ _processReport(report)
        /\ reverted' = FALSE
        /\ UNCHANGED lastResult

simulateHealthy ==
    /\ _processReport([globalRatio |-> 10000, riskScore |-> 0,
                       checkNumber |-> totalChecks + 1, severity |-> 0,
                       anomalyDetected |-> FALSE])
    /\ reverted' = FALSE
    /\ UNCHANGED lastResult

simulateWarning ==
    /\ _processReport([globalRatio |-> 8900, riskScore |-> 45,
                       checkNumber |-> totalChecks + 1, severity |-> 1,
                       anomalyDetected |-> TRUE])
    /\ reverted' = FALSE
    /\ UNCHANGED lastResult

simulateCritical ==
    /\ _processReport([globalRatio |-> 7600, riskScore |-> 85,
                       checkNumber |-> totalChecks + 1, severity |-> 2,
                       anomalyDetected |-> TRUE])
    /\ reverted' = FALSE
    /\ UNCHANGED lastResult

setGuard(sender, _guard) ==
    IF sender # Owner THEN Revert
    ELSE
        /\ guard' = _guard
        /\ reverted' = FALSE
        /\ UNCHANGED <<guardVars, reportVars, protocolVars, controllerVars, lastResult>>

setEmergencyController(sender, _controller) ==
    IF sender # Owner THEN Revert
    ELSE
        /\ emergencyController' = _controller
        /\ reverted' = FALSE
        /\ UNCHANGED <<guardVars, guard, reportVars, protocolVars, controllerOracle,
                       isPaused, lastResult>>

\* EmergencyController.setOracle
controllerSetOracle(sender, _oracle) ==
    IF sender # Owner THEN Revert
    ELSE
        /\ controllerOracle' = _oracle
        /\ reverted' = FALSE
        /\ UNCHANGED <<guardVars, guard, reportVars, protocolVars, emergencyController,
                       isPaused, lastResult>>

\* EmergencyController.resumeProtocol
resumeProtocol(sender) ==
    IF sender # Owner THEN Revert
    ELSE IF ~isPaused THEN Revert
    ELSE
        /\ isPaused' = FALSE
        /\ reverted' = FALSE
        /\ UNCHANGED <<guardVars, guard, reportVars, protocolVars, emergencyController,
                       controllerOracle, lastResult>>

InSeq(x, s) == \E j \in 1..Len(s) : s[j] = x

\* Row i of the parallel arrays of a batch b.
rowOf(b, i) ==
    [name |-> b.names[i], protocolType |-> b.types[i], chain |-> b.chains[i],
     claimed |-> b.claimed[i], actual |-> b.actual[i],
     solvencyRatio |-> b.solvencyRatios[i], utilization |-> b.utilizations[i],
     velocityBps |-> b.velocityBps[i], velocityNegative |-> b.velocityNegative[i]]

\* One iteration of the loop of submitProtocolData on the state st it has
\* built so far; the guard push is try/catch, as in pushGlobalStatus.
\* st.stale holds the chains whose lastUpdated is below ts - 1: the chains
\* written last by an earlier transaction at least two seconds ago.
submitRow(st, b, checkNumber, i) ==
    LET name == b.names[i]
        cs == IF b.chains[i] \in st.stale THEN ZeroChainStats
              ELSE Get(st.chains, b.chains[i], ZeroChainStats)
        pushed == IF guard # NoAddr /\ LedgerAddr = oracle
                  THEN statusAfter(st.ps, st.events, name, b.solvencyRatios[i], checkNumber)
                  ELSE [ps |-> st.ps, events |-> st.events]
    IN  [prev |-> [st.prev EXCEPT ![name] = b.utilizations[i]],
         latest |-> [st.latest EXCEPT ![name] = rowOf(b, i)],
         tracked |-> IF InSeq(name, st.tracked) THEN st.tracked
                     ELSE Append(st.tracked, name),
         chains |-> Put(st.chains, b.chains[i],
                        [totalReserves |-> cs.totalReserves + b.actual[i],
                         totalClaimed |-> cs.totalClaimed + b.claimed[i],
                         protocolCount |-> cs.protocolCount + 1]),
         stale |-> st.stale \ {b.chains[i]},
         ps |-> pushed.ps,
         events |-> pushed.events]

RECURSIVE submitLoop(_, _, _, _)
submitLoop(st, b, checkNumber, i) ==
    IF i > Len(b.names) THEN st
    ELSE submitLoop(submitRow(st, b, checkNumber, i), b, checkNumber, i + 1)

lengthsMatch_IgnoresFlags(b) ==
    LET count == Len(b.names)
    IN  /\ count = Len(b.types)
        /\ count = Len(b.chains)
        /\ count = Len(b.claimed)
        /\ count = Len(b.actual)
        /\ count = Len(b.solvencyRatios)
        /\ count = Len(b.utilizations)
        /\ count = Len(b.velocityBps)

lengthsMatch(b) ==
    LET count == Len(b.names)
    IN  /\ count = Len(b.types)
        /\ count = Len(b.chains)
        /\ count = Len(b.claimed)
        /\ count = Len(b.actual)
        /\ count = Len(b.solvencyRatios)
        /\ count = Len(b.utilizations)
        /\ count = Len(b.velocityBps)
        /\ count = Len(b.velocityNegative)

\* submitProtocolData in a block for whose timestamp the chains of stale
\* have lastUpdated < ts - 1.
submitProtocolDataAt(stale, sender, checkNumber, b) ==
    IF sender # reporter /\ sender # Owner THEN Revert
    ELSE IF Len(b.names) = 0 THEN Revert
    ELSE IF ~lengthsMatch(b) THEN Revert
    ELSE
        LET st == submitLoop([prev |-> previousUtilization,
                              latest |-> latestProtocolData,
                              tracked |-> trackedProtocols,
                              chains |-> chainStats,
                              stale |-> stale,
                              ps |-> protocolStatus,
                              events |-> totalPauseEvents], b, checkNumber, 1)
        IN  /\ previousUtilization' = st.prev
            /\ latestProtocolData' = st.latest
            /\ trackedProtocols' = st.tracked
            /\ chainStats' = st.chains
            /\ protocolStatus' = st.ps
            /\ totalPauseEvents' = st.events
            /\ protocolCountPerCheck' = Put(protocolCountPerCheck, checkNumber, Len(b.names))
            /\ reverted' = FALSE
            /\ UNCHANGED <<oracle, guardGlobalVars, guardRegVars, guard, reportVars,
                           controllerVars, lastResult>>

\* submitProtocolData two seconds or more after the batch before it, as the
\* backend sends it: once per cycle, cycles a minute apart.
submitProtocolData(sender, checkNumber, b) ==
    submitProtocolDataAt({b.chains[i] : i \in 1..Len(b.chains)}, sender, checkNumber, b)

getPreviousUtilizations(names) == [i \in 1..Len(names) |-> previousUtilization[names[i]]]

(***************************************************************************)
(* CRE workflow (healthcheck/main.ts)                                      *)
(*                                                                         *)
(* solvencyRatio is a JavaScript number, actual * 10000 / claimed, not     *)
(* floored: it is kept as the exact fraction num / den.                    *)
(***************************************************************************)
VELOCITY_ALERT_THRESHOLD == 500

RECURSIVE Pow10(_)
Pow10(n) == IF n = 0 THEN 1 ELSE 10 * Pow10(n - 1)

Abs(x) == IF x < 0 THEN -x ELSE x

\* Variant of the ratio that reads an empty pool as unbacked.
Ratio_ZeroWhenEmpty(actual, claimed) ==
    IF claimed > 0 THEN [num |-> actual * 10000, den |-> claimed]
    ELSE [num |-> 0, den |-> 1]

\* Number(claimed) > 0 ? (Number(actual) * 10000) / Number(claimed) : 10000
Ratio(actual, claimed) ==
    IF claimed > 0 THEN [num |-> actual * 10000, den |-> claimed]
    ELSE [num |-> 10000, den |-> 1]

\* ratio < t, for an integer t
RatLt(q, t) == q.num < t * q.den

\* q < r
RatLess(q, r) == q.num * r.den < r.num * q.den

\* Math.floor(ratio)
RatFloor(q) == q.num \div q.den

\* (ratio / 100).toFixed(2), read back in basis points: ratio rounded to the
\* nearest integer.
RatFixed(q) == (2 * q.num + q.den) \div (2 * q.den)

readAave(protocol, raw) ==
    LET d == Pow10(protocol.decimals)
        claimedUSD == raw.supply \div d
        actualUSD == (raw.liquid + raw.borrows) \div d
    IN  [name |-> protocol.name, type |-> "aave", chain |-> protocol.chainName,
         claimed |-> claimedUSD, actual |-> actualUSD,
         solvencyRatio |-> Ratio(actualUSD, claimedUSD),
         utilizationBps |-> IF claimedUSD > 0
                            THEN ((raw.borrows \div d) * 10000) \div claimedUSD
                            ELSE 0,
         details |-> [claimed |-> claimedUSD,
                      actual |-> (raw.liquid \div d) + (raw.borrows \div d)]]

readCompound(protocol, raw) ==
    LET d == Pow10(protocol.decimals)
        claimedUSD == raw.supply \div d
        actualUSD == (raw.liquid + raw.borrows) \div d
    IN  [name |-> protocol.name, type |-> "compound", chain |-> protocol.chainName,
         claimed |-> claimedUSD, actual |-> actualUSD,
         solvencyRatio |-> Ratio(actualUSD, claimedUSD),
         utilizationBps |-> IF claimedUSD > 0
                            THEN ((raw.borrows \div d) * 10000) \div claimedUSD
                            ELSE 0,
         details |-> [claimed |-> claimedUSD,
                      actual |-> (raw.liquid \div d) + (raw.borrows \div d)]]

readLido(protocol, raw) ==
    LET d == Pow10(protocol.decimals)
        claimedETH == raw.supply \div d
        actualETH == raw.liquid \div d
        ratio == Ratio(actualETH, claimedETH)
    IN  [name |-> protocol.name, type |-> "lido", chain |-> protocol.chainName,
         claimed |-> claimedETH, actual |-> actualETH,
         solvencyRatio |-> ratio,
         \* ratio >= 10000 ? 0 : Math.floor(10000 - ratio)
         utilizationBps |-> IF ~RatLt(ratio, 10000) THEN 0
                            ELSE (10000 * ratio.den - ratio.num) \div ratio.den,
         details |-> [claimed |-> claimedETH, actual |-> actualETH]]

readERC4626(protocol, raw) ==
    LET d == Pow10(protocol.decimals)
        claimedUSD == raw.supply \div d
        actualUSD == raw.liquid \div d
    IN  [name |-> protocol.name, type |-> "erc4626", chain |-> protocol.chainName,
         claimed |-> claimedUSD, actual |-> actualUSD,
         solvencyRatio |-> Ratio(actualUSD, claimedUSD),
         utilizationBps |-> 0,
         details |-> [claimed |-> claimedUSD, actual |-> actualUSD]]

KnownTypes == {"aave", "compound", "lido", "erc4626"}

\* Defined for the known types; any other type throws (see healthCheckWorkflow).
readProtocol(protocol, raw) ==
    CASE protocol.type = "aave" -> readAave(protocol, raw)
      [] protocol.type = "compound" -> readCompound(protocol, raw)
      [] protocol.type = "lido" -> readLido(protocol, raw)
      [] protocol.type = "erc4626" -> readERC4626(protocol, raw)

\* The map body of calculateVelocities.
velocityOf(result, prevBps, isFirstRun) ==
    LET delta == result.utilizationBps - prevBps
        velocityBps == IF isFirstRun THEN 0 ELSE Abs(delta)
    IN  [name |-> result.name,
         currentUtilBps |-> result.utilizationBps,
         prevUtilBps |-> prevBps,
         velocityBps |-> velocityBps,
         velocityNegative |-> delta < 0,
         isAlert |-> ~isFirstRun /\ velocityBps >= VELOCITY_ALERT_THRESHOLD]

calculateVelocities(results, previousUtils, isFirstRun) ==
    [i \in 1..Len(results) |-> velocityOf(results[i], previousUtils[i], isFirstRun)]

\* decoded.every(v => v === 0n)
allZero(decoded) == \A i \in 1..Len(decoded) : decoded[i] = 0

\* Step 5, one iteration of the loop.
crossRefOf(result, offchainTVL) ==
    IF offchainTVL > 0 /\ result.claimed > 0
    THEN IF result.type = "lido"
         THEN (IF RatLt(result.solvencyRatio, 9900) THEN 20 ELSE 0)
         \* share = claimed / tvl * 100; share < 0.5 || share > 200
         ELSE (IF 200 * result.claimed < offchainTVL \/ result.claimed > 2 * offchainTVL
               THEN 15 ELSE 0)
    ELSE 0

\* Step 6, solvency scoring of one result.
solvencyScoreOf(result) ==
    (IF RatLt(result.solvencyRatio, 9500) THEN 15 ELSE 0)
    + (IF RatLt(result.solvencyRatio, 9000) THEN 10 ELSE 0)
    + (IF RatLt(result.solvencyRatio, 8000) THEN 10 ELSE 0)

\* Variant of the velocity scoring with strict thresholds.
velocityScoreOf_Strict(v) ==
    IF v.velocityBps > VELOCITY_ALERT_THRESHOLD /\ ~v.velocityNegative
    THEN 15 + (IF v.velocityBps > VELOCITY_ALERT_THRESHOLD * 3 THEN 20 ELSE 0)
    ELSE IF v.velocityBps > VELOCITY_ALERT_THRESHOLD /\ v.velocityNegative
    THEN 10
    ELSE 0

\* Step 6, velocity scoring of one velocity (inside if (!isFirstRun)).
velocityScoreOf(v) ==
    IF v.velocityBps >= VELOCITY_ALERT_THRESHOLD /\ ~v.velocityNegative
    THEN 15 + (IF v.velocityBps >= VELOCITY_ALERT_THRESHOLD * 3 THEN 20 ELSE 0)
    ELSE IF v.velocityBps >= VELOCITY_ALERT_THRESHOLD /\ v.velocityNegative
    THEN 10
    ELSE 0

RECURSIVE SumSeq(_, _)
SumSeq(f, i) == IF i > Len(f) THEN 0 ELSE f[i] + SumSeq(f, i + 1)

\* The worst (lowest) solvency ratio of results[i..], starting from worst.
RECURSIVE worstFrom(_, _, _)
worstFrom(results, worst, i) ==
    IF i > Len(results) THEN worst
    ELSE worstFrom(results,
                   IF RatLess(results[i].solvencyRatio, worst)
                   THEN results[i].solvencyRatio ELSE worst,
                   i + 1)

\* Variant of the clamp that leaves the sum as it is.
clampRisk_None(sum) == sum

\* if (riskScore > 100) riskScore = 100
clampRisk(sum) == IF sum > 100 THEN 100 ELSE sum

\* Variant of the severity thresholds with inclusive risk bounds.
severityOf_Inclusive(riskScore, worstSolvency) ==
    IF riskScore <= 30 /\ ~RatLt(worstSolvency, 9500) THEN 0
    ELSE IF riskScore <= 60 /\ ~RatLt(worstSolvency, 9000) THEN 1
    ELSE 2

severityOf(riskScore, worstSolvency) ==
    IF riskScore < 30 /\ ~RatLt(worstSolvency, 9500) THEN 0
    ELSE IF riskScore < 60 /\ ~RatLt(worstSolvency, 9000) THEN 1
    ELSE 2

NoResult ==
    [checkNumber |-> 0, isFirstRun |-> FALSE, protocols |-> <<>>, riskScore |-> 0,
     severity |-> 0, anomalyDetected |-> FALSE]

\* A run of healthCheckWorkflow in which every read of step 1 succeeds, on a
\* configuration, the raw on-chain reads of its protocols and the agreed
\* TVL per slug.  checksOk and prevOk say whether the reads of totalChecks and of getPreviousUtilizations succeed.
\* writeReport reaches the ledger through the forwarder, whose onReport
\* decodes the payload and hands it to _processReport.
cycleOf(config, reads, tvlMap, checksOk, prevOk) ==
    LET results == [i \in 1..Len(config) |-> readProtocol(config[i], reads[config[i].name])]
        checkNumber == IF checksOk THEN totalChecks + 1 ELSE 1
        protocolNames == [i \in 1..Len(config) |-> config[i].name]
        decoded == getPreviousUtilizations(protocolNames)
        previousUtils == IF prevOk THEN decoded ELSE [i \in 1..Len(config) |-> 0]
        isFirstRun == IF prevOk THEN allZero(decoded) ELSE TRUE
        velocities == calculateVelocities(results, previousUtils, isFirstRun)
        crossRefRisk ==
            SumSeq([i \in 1..Len(results) |->
                        crossRefOf(results[i], tvlMap[config[i].defiLlamaSlug])], 1)
        worstSolvency == worstFrom(results, [num |-> 10000, den |-> 1], 1)
        sum == SumSeq([i \in 1..Len(results) |-> solvencyScoreOf(results[i])], 1)
               + (IF ~isFirstRun
                  THEN SumSeq([i \in 1..Len(results) |-> velocityScoreOf(velocities[i])], 1)
                  ELSE 0)
               + crossRefRisk
        riskScore == clampRisk(sum)
        anomalyDetected ==
            \/ crossRefRisk > 0
            \/ RatLt(worstSolvency, 9500)
            \/ (~isFirstRun /\ \E i \in 1..Len(velocities) : velocities[i].isAlert)
        severity == severityOf(riskScore, worstSolvency)
    IN  \* onReport, called by the forwarder (onlyForwarder passes)
        /\ _processReport([globalRatio |-> RatFloor(worstSolvency),
                           riskScore |-> riskScore,
                           checkNumber |-> checkNumber, severity |-> severity,
                           anomalyDetected |-> anomalyDetected])
        /\ reverted' = FALSE
        /\ lastResult' =
               [checkNumber |-> checkNumber,
                isFirstRun |-> isFirstRun,
                protocols |-> [i \in 1..Len(results) |->
                    [name |-> results[i].name,
                     type |-> results[i].type,
                     chain |-> results[i].chain,
                     solvency |-> RatFixed(results[i].solvencyRatio),
                     utilizationBps |-> results[i].utilizationBps,
                     velocityBps |-> IF isFirstRun THEN 0 ELSE velocities[i].velocityBps,
                     velocityNegative |-> velocities[i].velocityNegative,
                     velocityAlert |-> IF isFirstRun THEN FALSE ELSE velocities[i].isAlert,
                     details |-> results[i].details]],
                riskScore |-> riskScore,
                severity |-> severity,
                anomalyDetected |-> anomalyDetected]

\* A read that throws: the call fails or its answer cannot be decoded.
ReadFailed == [supply |-> -1, liquid |-> -1, borrows |-> -1]

\* Step 1 throws on this protocol: readProtocol's default case, or a failed
\* read inside its reader.
readThrows(protocol, raw) == protocol.type \notin KnownTypes \/ raw = ReadFailed

\* Variant of the workflow that drops the protocols it cannot read and
\* scores the rest.
healthCheckWorkflow_SkipsUnreadable(config, reads, tvlMap, checksOk, prevOk) ==
    LET readable(protocol) == ~readThrows(protocol, reads[protocol.name])
    IN  cycleOf(SelectSeq(config, readable), reads, tvlMap, checksOk, prevOk)

\* Variant of the workflow that numbers its report totalChecks + 1 even
\* when totalChecks could not be read.
healthCheckWorkflow_TrustsCounter(config, reads, tvlMap, checksOk, prevOk) ==
    IF \E i \in 1..Len(config) : readThrows(config[i], reads[config[i].name])
    THEN UNCHANGED vars
    ELSE cycleOf(config, reads, tvlMap, TRUE, prevOk)

\* healthCheckWorkflow: an exception in step 1 leaves the handler before
\* anything is computed or written.
healthCheckWorkflow(config, reads, tvlMap, checksOk, prevOk) ==
    IF \E i \in 1..Len(config) : readThrows(config[i], reads[config[i].name])
    THEN UNCHANGED vars
    ELSE cycleOf(config, reads, tvlMap, checksOk, prevOk)

(***************************************************************************)
(* Single-protocol workflow variant (one Aave market, total TVL)           *)
(***************************************************************************)
\* Step 3: share of the deposits in the total TVL, in percent, outside
\* [3, 50] adds 25; missing TVL or no deposits adds 10.
singleCrossRefRisk(depositsUSD, totalTVL) ==
    IF totalTVL > 0 /\ depositsUSD > 0
    THEN (IF depositsUSD * 100 < 3 * totalTVL \/ depositsUSD * 100 > 50 * totalTVL
          THEN 25 ELSE 0)
    ELSE 10

\* Variant of the single-protocol scoring whose first solvency threshold is
\* inclusive.
singleRiskSum_Inclusive(solvencyRatio, utilizationRate, crossRefRisk) ==
    (IF ~RatLess([num |-> 9500, den |-> 1], solvencyRatio) THEN 30 ELSE 0)
    + (IF RatLt(solvencyRatio, 9000) THEN 20 ELSE 0)
    + (IF RatLt(solvencyRatio, 8000) THEN 20 ELSE 0)
    + (IF utilizationRate.num > 9000 * utilizationRate.den THEN 15 ELSE 0)
    + (IF utilizationRate.num > 9500 * utilizationRate.den THEN 10 ELSE 0)
    + crossRefRisk

\* Step 4, before the clamp: solvency, utilization and cross-reference risk.
singleRiskSum(solvencyRatio, utilizationRate, crossRefRisk) ==
    (IF RatLt(solvencyRatio, 9500) THEN 30 ELSE 0)
    + (IF RatLt(solvencyRatio, 9000) THEN 20 ELSE 0)
    + (IF RatLt(solvencyRatio, 8000) THEN 20 ELSE 0)
    + (IF utilizationRate.num > 9000 * utilizationRate.den THEN 15 ELSE 0)
    + (IF utilizationRate.num > 9500 * utilizationRate.den THEN 10 ELSE 0)
    + crossRefRisk

\* One run of the single-protocol healthCheckWorkflow on raw reads of the
\* Aave market and the agreed total TVL.  Its result carries no per-protocol
\* rows.
singleProtocolWorkflow(decimals, raw, totalTVL, checksOk) ==
    LET d == Pow10(decimals)
        depositsUSD == raw.supply \div d
        liquidityUSD == raw.liquid \div d
        borrowsUSD == raw.borrows \div d
        actualUSD == liquidityUSD + borrowsUSD
        solvencyRatio == Ratio(actualUSD, depositsUSD)
        utilizationRate == IF depositsUSD > 0
                           THEN [num |-> borrowsUSD * 10000, den |-> depositsUSD]
                           ELSE [num |-> 0, den |-> 1]
        crossRefRisk == singleCrossRefRisk(depositsUSD, totalTVL)
        riskScore == clampRisk(singleRiskSum(solvencyRatio, utilizationRate, crossRefRisk))
        anomalyDetected ==
            \/ crossRefRisk > 0
            \/ RatLt(solvencyRatio, 9500)
            \/ utilizationRate.num > 9500 * utilizationRate.den
        severity == severityOf(riskScore, solvencyRatio)
        checkNumber == IF checksOk THEN totalChecks + 1 ELSE 1
    IN  /\ _processReport([globalRatio |-> RatFloor(solvencyRatio),
                           riskScore |-> riskScore,
                           checkNumber |-> checkNumber, severity |-> severity,
                           anomalyDetected |-> anomalyDetected])
        /\ reverted' = FALSE
        /\ lastResult' =
               [checkNumber |-> checkNumber, isFirstRun |-> FALSE, protocols |-> <<>>,
                riskScore |-> riskScore, severity |-> severity,
                anomalyDetected |-> anomalyDetected]

(***************************************************************************)
(* Backend reporter (server/onchain-reporter.mjs)                          *)
(***************************************************************************)
\* Values s for which Math.floor(parseFloat(s) * 100) is one below the
\* hundredths written in the string (binary floating point), among the
\* solvency values the model produces: none.
FloorLoses == {}

\* BigInt(Math.floor(parseFloat(p.solvency) * 100))
parseSolvency(fixed) == IF fixed \in FloorLoses THEN fixed - 1 ELSE fixed

\* The parallel arrays the reporter builds from a workflow result.
batchOf(res) ==
    [names |-> [i \in 1..Len(res.protocols) |-> res.protocols[i].name],
     types |-> [i \in 1..Len(res.protocols) |-> res.protocols[i].type],
     chains |-> [i \in 1..Len(res.protocols) |-> res.protocols[i].chain],
     claimed |-> [i \in 1..Len(res.protocols) |-> res.protocols[i].details.claimed],
     actual |-> [i \in 1..Len(res.protocols) |-> res.protocols[i].details.actual],
     solvencyRatios |-> [i \in 1..Len(res.protocols) |->
                            parseSolvency(res.protocols[i].solvency)],
     utilizations |-> [i \in 1..Len(res.protocols) |-> res.protocols[i].utilizationBps],
     velocityBps |-> [i \in 1..Len(res.protocols) |-> res.protocols[i].velocityBps],
     velocityNegative |-> [i \in 1..Len(res.protocols) |->
                              res.protocols[i].velocityNegative]]

\* reporter.submitProtocolData(result): no transaction for an empty result;
\* a failed transaction is caught and reported as null.
reporterSubmit(sender) ==
    /\ Len(lastResult.protocols) > 0
    /\ submitProtocolData(sender, lastResult.checkNumber, batchOf(lastResult))

(***************************************************************************)
(* Configurations and inputs                                               *)
(***************************************************************************)
ProtoP1 ==
    [name |-> "P1", type |-> "aave", chainName |-> "ethereum", decimals |-> 1,
     defiLlamaSlug |-> "aave-v3"]

ProtoP2 ==
    [name |-> "P2", type |-> "lido", chainName |-> "ethereum", decimals |-> 1,
     defiLlamaSlug |-> "lido"]

\* A configured protocol of a type no reader exists for.
ProtoUnknown ==
    [name |-> "P2", type |-> "maker", chainName |-> "ethereum", decimals |-> 1,
     defiLlamaSlug |-> "lido"]

\* config.protocols before and after a second protocol is added.
Configs == {<<ProtoP1>>, <<ProtoP1, ProtoP2>>}

\* Configurations with a protocol of unknown type.
BadConfigs == {<<ProtoP1, ProtoUnknown>>}

AaveRaws ==
    {[supply |-> 1000, liquid |-> 1000, borrows |-> 0],
     [supply |-> 1000, liquid |-> 700, borrows |-> 300],
     [supply |-> 1000, liquid |-> 100, borrows |-> 900]}

LidoRaws ==
    {[supply |-> 1000, liquid |-> 1000, borrows |-> 0],
     [supply |-> 1000, liquid |-> 920, borrows |-> 0]}

Reads == {[n \in Names |-> IF n = "P1" THEN a ELSE l] : a \in AaveRaws, l \in LidoRaws}

\* Reads in which the read of P2 throws.
FailedReads == {[n \in Names |-> IF n = "P1" THEN a ELSE ReadFailed] : a \in AaveRaws}

\* Reads of P1 with solvency 100%, 92%, 85% and 18000 / 20001 (8999.55 bps).
SeverityReads ==
    {[n \in Names |-> [supply |-> 1000, liquid |-> 700, borrows |-> 300]],
     [n \in Names |-> [supply |-> 1000, liquid |-> 620, borrows |-> 300]],
     [n \in Names |-> [supply |-> 1000, liquid |-> 550, borrows |-> 300]],
     [n \in Names |-> [supply |-> 200010, liquid |-> 120000, borrows |-> 60000]]}

NoTvl == [s \in {"aave-v3", "lido"} |-> 0]

TvlMaps == {NoTvl, [s \in {"aave-v3", "lido"} |-> 1000]}

WatchLists == {<<>>, <<"P1">>, <<"P2", "P1">>}

\* A watch-list of exactly MAX_WATCHED names and one of MAX_WATCHED + 1.
FullWatchList == [i \in 1..MAX_WATCHED |-> IF i % 2 = 1 THEN "P1" ELSE "P2"]

LongWatchList == Append(FullWatchList, "P1")

Solvencies == {8500, 9200, 10000}

Severities == {0, 1, 2}

(***************************************************************************)
(* Specifications                                                          *)
(***************************************************************************)
Init ==
    /\ oracle = NoAddr
    /\ globalPaused = FALSE
    /\ currentSeverity = 0
    /\ totalPauseEvents = 0
    /\ registrations = [c \in Consumers |-> ZeroRegistration]
    /\ registeredList = <<>>
    /\ totalRegisteredCount = 0
    /\ protocolStatus = [n \in Names |-> ZeroStatus]
    /\ guard = NoAddr
    /\ latestReport = ZeroReport
    /\ reportHistory = <<>>
    /\ reports = <<>>
    /\ totalChecks = 0
    /\ totalWarnings = 0
    /\ totalCritical = 0
    /\ totalAnomalies = 0
    /\ highestRiskScore = 0
    /\ highestRiskCheckNumber = 0
    /\ previousUtilization = [n \in Names |-> 0]
    /\ latestProtocolData = [n \in Names |-> ZeroProtocolReport]
    /\ trackedProtocols = <<>>
    /\ protocolCountPerCheck = <<>>
    /\ chainStats = <<>>
    /\ emergencyController = NoAddr
    /\ controllerOracle = NoAddr
    /\ isPaused = FALSE
    /\ lastResult = NoResult
    /\ reverted = FALSE

SetOracle == \E sender \in {Owner, Stranger} : setOracle(sender, LedgerAddr)

SetGuard == \E sender \in {Owner, Stranger} : setGuard(sender, GuardAddr)

\* The ledger with its guard: cycles of a one-protocol configuration whose
\* reads produce each severity.
RunCycle ==
    /\ totalChecks < MaxChecks
    /\ \E reads \in SeverityReads, checksOk \in BOOLEAN :
           healthCheckWorkflow(<<ProtoP1>>, reads, NoTvl, checksOk, TRUE)

ReporterSubmit ==
    /\ totalPauseEvents < MaxPauseEvents
    /\ \E sender \in {Owner, Stranger} : reporterSubmit(sender)

\* The batches that differ from b in one array, which holds one entry more.
Mismatched(b) ==
    {[b EXCEPT !.names = Append(@, "P1")],
     [b EXCEPT !.types = Append(@, "aave")],
     [b EXCEPT !.chains = Append(@, "ethereum")],
     [b EXCEPT !.claimed = Append(@, 0)],
     [b EXCEPT !.actual = Append(@, 0)],
     [b EXCEPT !.solvencyRatios = Append(@, 0)],
     [b EXCEPT !.utilizations = Append(@, 0)],
     [b EXCEPT !.velocityBps = Append(@, 0)],
     [b EXCEPT !.velocityNegative = Append(@, FALSE)]}

\* The reporter's key calls submitProtocolData with arrays of unequal lengths.
MalformedSubmit ==
    /\ Len(lastResult.protocols) > 0
    /\ \E b \in Mismatched(batchOf(lastResult)) :
           submitProtocolData(Owner, lastResult.checkNumber, b)

SimulateHealthy == totalChecks < MaxChecks /\ simulateHealthy

SimulateWarning == totalChecks < MaxChecks /\ simulateWarning

SimulateCritical == totalChecks < MaxChecks /\ simulateCritical

ManualUnpause ==
    \E sender \in {Owner, Stranger}, protocolName \in {""} \cup Names :
        manualUnpause(sender, protocolName)

Next ==
    \/ SetOracle
    \/ SetGuard
    \/ RunCycle
    \/ ReporterSubmit
    \/ MalformedSubmit
    \/ SimulateHealthy
    \/ SimulateWarning
    \/ SimulateCritical
    \/ ManualUnpause

Spec == Init /\ [][Next]_vars

\* The guard on its own, driven by arbitrary callers.
Register ==
    \E sender \in Consumers, watchedProtocols \in WatchLists :
        /\ Len(registeredList) < MaxRegistered
        /\ register(sender, watchedProtocols)

Deregister == \E sender \in Consumers : deregister(sender)

UpdateGlobalStatus ==
    /\ totalPauseEvents < MaxPauseEvents
    /\ \E sender \in {LedgerAddr, Stranger}, severity \in Severities :
           updateGlobalStatus(sender, severity)

UpdateProtocolStatus ==
    /\ totalPauseEvents < MaxPauseEvents
    /\ \E sender \in {LedgerAddr, Stranger}, name \in Names, solvency \in Solvencies :
           updateProtocolStatus(sender, name, solvency, 1)

NextGuard ==
    \/ SetOracle
    \/ Register
    \/ Deregister
    \/ UpdateGlobalStatus
    \/ UpdateProtocolStatus
    \/ ManualUnpause

SpecGuard == Init /\ [][NextGuard]_vars

\* The registry of the guard: consumers register, with lists up to and
\* beyond MAX_WATCHED names, register again and deregister, while the
\* ledger pauses and unpauses globally.
RegisterAny ==
    \E sender \in Consumers,
       watchedProtocols \in WatchLists \cup {FullWatchList, LongWatchList} :
        /\ registrations[sender].active \/ Len(registeredList) < MaxRegistered
        /\ register(sender, watchedProtocols)

NextRegistry ==
    \/ SetOracle
    \/ RegisterAny
    \/ Deregister
    \/ UpdateGlobalStatus

SpecRegistry == Init /\ [][NextRegistry]_vars

\* The workflow against the ledger: cycles over both configurations.
CycleStep ==
    /\ totalChecks < MaxCycles
    /\ \E config \in Configs \cup BadConfigs, reads \in Reads \cup FailedReads,
          tvlMap \in TvlMaps, prevOk \in BOOLEAN :
           healthCheckWorkflow(config, reads, tvlMap, TRUE, prevOk)

CycleSubmit == reporterSubmit(Owner)

NextCycle ==
    \/ CycleStep
    \/ CycleSubmit

SpecCycle == Init /\ [][NextCycle]_vars

\* The scoring of the workflows: cycles of the two-protocol configuration
\* and of the single-protocol variant over reads at and around the
\* thresholds.
ScoreAaveRaws ==
    {[supply |-> 1000, liquid |-> 700, borrows |-> 300],
     [supply |-> 1000, liquid |-> 610, borrows |-> 340],
     [supply |-> 1000, liquid |-> 650, borrows |-> 350],
     [supply |-> 1000, liquid |-> 550, borrows |-> 450],
     [supply |-> 1000, liquid |-> 0, borrows |-> 790]}

ScoreLidoRaws ==
    {[supply |-> 1000, liquid |-> 1000, borrows |-> 0],
     [supply |-> 1000, liquid |-> 920, borrows |-> 0]}

ScoreReads ==
    {[n \in Names |-> IF n = "P1" THEN a ELSE l] : a \in ScoreAaveRaws, l \in ScoreLidoRaws}

ScoreTvlMaps == {NoTvl, [s \in {"aave-v3", "lido"} |-> IF s = "aave-v3" THEN 40 ELSE 1000]}

SingleRaws ==
    {[supply |-> 1000, liquid |-> 650, borrows |-> 300],
     [supply |-> 1000, liquid |-> 640, borrows |-> 300],
     [supply |-> 1000, liquid |-> 40, borrows |-> 960]}

TotalTVLs == {0, 1000}

ScoreCycle ==
    /\ totalChecks < MaxCycles
    /\ \E reads \in ScoreReads, tvlMap \in ScoreTvlMaps :
           healthCheckWorkflow(<<ProtoP1, ProtoP2>>, reads, tvlMap, TRUE, TRUE)

SingleCycle ==
    /\ totalChecks < MaxCycles
    /\ \E raw \in SingleRaws, totalTVL \in TotalTVLs :
           singleProtocolWorkflow(1, raw, totalTVL, TRUE)

NextScore ==
    \/ ScoreCycle
    \/ CycleSubmit
    \/ SingleCycle

SpecScore == Init /\ [][NextScore]_vars

\* The readers of the four protocol types: first-run cycles of a single
\* protocol of each type, and of a compound market with a lido pool, over
\* reads of an empty pool, an over-backed pool and pools backed below 100%.
ProtoOfType(type) ==
    [name |-> "P1", type |-> type, chainName |-> "ethereum", decimals |-> 1,
     defiLlamaSlug |-> IF type = "lido" THEN "lido" ELSE "aave-v3"]

TypeConfigs ==
    {<<ProtoOfType(type)>> : type \in KnownTypes} \cup {<<ProtoOfType("compound"), ProtoP2>>}

\* Raw reads, with decimals = 1: a supply below one unit (claimed 0), and
\* pools backed at 105%, at 98.5% and at 92%.
TypeRaws ==
    {[supply |-> 5, liquid |-> 500, borrows |-> 0],
     [supply |-> 1000, liquid |-> 1050, borrows |-> 0],
     [supply |-> 1000, liquid |-> 985, borrows |-> 0],
     [supply |-> 1000, liquid |-> 920, borrows |-> 0]}

TypeReads == {[n \in Names |-> IF n = "P1" THEN a ELSE l] : a \in TypeRaws, l \in TypeRaws}

TypeCycle ==
    /\ totalChecks < MaxCycles
    /\ \E config \in TypeConfigs, reads \in TypeReads, tvlMap \in TvlMaps :
           healthCheckWorkflow(config, reads, tvlMap, TRUE, TRUE)

NextReads == TypeCycle

SpecReads == Init /\ [][NextReads]_vars

(***************************************************************************)
(* Claims                                                                  *)
(***************************************************************************)
AnyWatchedPaused(a) ==
    \E i \in 1..Len(registrations[a].watchedProtocols) :
        protocolStatus[registrations[a].watchedProtocols[i]].paused

\* C1: for every address with an active registration, isSafe is false
\* exactly when globalPaused is set or some name of its current watch-list
\* is paused, and true otherwise.
C1_IsSafeOfActive ==
    \A a \in Consumers :
        registrations[a].active => (isSafe(a) = ~(globalPaused \/ AnyWatchedPaused(a)))

\* An active registrant blocked only by the second name of its watch-list.
C1_Witness ==
    \E a \in Consumers :
        /\ registrations[a].active
        /\ ~globalPaused
        /\ Len(registrations[a].watchedProtocols) = 2
        /\ ~protocolStatus[registrations[a].watchedProtocols[1]].paused
        /\ protocolStatus[registrations[a].watchedProtocols[2]].paused
        /\ ~isSafe(a)

\* C2: an address that never registered (it was never pushed on
\* _registeredList) gets the answer true from isSafe in every reachable
\* guard state, global pause and protocol pauses included.
C2_UnregisteredIsSafe ==
    \A a \in Consumers : ~InSeq(a, registeredList) => (isSafe(a) = TRUE)

\* Everything is paused, a registrant is blocked, the stranger is not.
C2_Witness ==
    \E a, b \in Consumers :
        /\ ~InSeq(a, registeredList)
        /\ globalPaused
        /\ \A n \in Names : protocolStatus[n].paused
        /\ registrations[b].active /\ ~isSafe(b)
        /\ isSafe(a)

Linked == guard = GuardAddr /\ oracle = LedgerAddr

\* C3: with the guard and the ledger linked to each other, the step in
\* which the ledger processes a report leaves globalPaused true exactly when
\* that report's severity is CRITICAL.
C3_GlobalPauseFollowsSeverity ==
    [][(Linked /\ totalChecks' # totalChecks)
       => (globalPaused' = (latestReport'.severity = CRITICAL))]_vars

\* A CRITICAL report paused the guard and the next, lower report cleared it.
C3_Witness ==
    /\ Linked
    /\ Len(reportHistory) >= 2
    /\ reportHistory[Len(reportHistory) - 1].severity = CRITICAL
    /\ latestReport.severity < CRITICAL
    /\ currentSeverity = latestReport.severity
    /\ totalPauseEvents >= 1
    /\ ~globalPaused

\* C4 as stated: for every name with a recorded status, paused holds exactly
\* when the recorded solvency is below 9000.
C4_Original ==
    \A n \in Names :
        protocolStatus[n].lastCheckNumber > 0
        => (protocolStatus[n].paused <=> protocolStatus[n].solvency < SOLVENCY_PAUSE_THRESHOLD)

\* C4 as amended: a paused protocol always has a recorded solvency below
\* 9000, and a status changes only to the solvency-derived flag (an update)
\* or to the same status with paused cleared (the owner's manualUnpause).
C4_PausedFromSolvencyOrUnpaused ==
    [][\A n \in Names :
          /\ protocolStatus'[n].paused
             => protocolStatus'[n].solvency < SOLVENCY_PAUSE_THRESHOLD
          /\ protocolStatus'[n] # protocolStatus[n]
             => \/ protocolStatus'[n].paused
                   <=> protocolStatus'[n].solvency < SOLVENCY_PAUSE_THRESHOLD
                \/ protocolStatus'[n] = [protocolStatus[n] EXCEPT !.paused = FALSE]]_vars

\* One protocol paused by its solvency, another with the same solvency
\* manually unpaused.
C4_Witness ==
    \E n, m \in Names :
        /\ protocolStatus[n].paused /\ protocolStatus[n].solvency = 8500
        /\ ~protocolStatus[m].paused /\ protocolStatus[m].solvency = 8500
        /\ protocolStatus[m].lastCheckNumber > 0

ContractsUnchanged == UNCHANGED <<guardVars, ledgerVars>>

\* C5 as stated (all or nothing): a step that stores a report while a guard
\* is configured also applies the derived global guard update.
C5_Original ==
    [][(guard # NoAddr /\ totalChecks' # totalChecks)
       => currentSeverity' = latestReport'.severity]_vars

\* C5 as amended: each transaction is atomic on its own.  A reverted
\* transaction changes no ledger or guard state; a processed report is
\* stored as latest, in the history and under its check number in one step,
\* together with the global guard update when the guard accepts the ledger
\* as its oracle.
C5_TransactionAtomic ==
    [][/\ reverted' => ContractsUnchanged
       /\ totalChecks' # totalChecks
          => /\ totalChecks' = totalChecks + 1
             /\ reportHistory' = Append(reportHistory, latestReport')
             /\ \A k \in 1..MaxChecks :
                    k = latestReport'.checkNumber => getReport(k)' = latestReport'
             /\ Linked => currentSeverity' = latestReport'.severity]_vars

\* A stored CRITICAL report whose guard push was refused, and a cycle whose
\* per-protocol batch was not written: half-applied cycles.
C5_Witness ==
    /\ guard # NoAddr
    /\ totalChecks = 2
    /\ latestReport.severity = CRITICAL
    /\ currentSeverity = 0
    /\ ~globalPaused
    /\ latestReport.checkNumber \notin DOMAIN protocolCountPerCheck

\* C6: while the guard refuses the ledger's calls, a report is still
\* processed and a per-protocol batch still written, in transactions that do
\* not revert, and the guard is left as it was.
C6_GuardFailureNotPropagated ==
    (guard # NoAddr /\ oracle # LedgerAddr)
    => /\ totalChecks < MaxChecks
          => /\ ENABLED (/\ RunCycle
                         /\ ~reverted'
                         /\ totalChecks' = totalChecks + 1
                         /\ UNCHANGED <<globalPaused, currentSeverity, totalPauseEvents>>)
             /\ ENABLED (/\ SimulateCritical
                         /\ ~reverted'
                         /\ latestReport'.severity = CRITICAL
                         /\ UNCHANGED <<globalPaused, currentSeverity, totalPauseEvents>>)
       /\ Len(lastResult.protocols) > 0
          => ENABLED (/\ reporterSubmit(Owner)
                      /\ ~reverted'
                      /\ lastResult.checkNumber \in DOMAIN protocolCountPerCheck'
                      /\ UNCHANGED <<protocolStatus, totalPauseEvents>>)

\* A CRITICAL report and an insolvent protocol row are in the ledger, the
\* guard that refused both pushes is untouched.
C6_Witness ==
    /\ guard # NoAddr /\ oracle # LedgerAddr
    /\ ~reverted
    /\ latestReport.severity = CRITICAL
    /\ latestProtocolData["P1"].solvencyRatio = 8500
    /\ latestReport.checkNumber \in DOMAIN protocolCountPerCheck
    /\ ~globalPaused /\ currentSeverity = 0 /\ totalPauseEvents = 0
    /\ protocolStatus["P1"] = ZeroStatus

\* C7 as stated: a report stored under a check number is never overwritten
\* or removed.
C7_Original ==
    [][\A k \in DOMAIN reports : getReport(k)' = getReport(k)]_vars

\* C8 as stated: the i-th recorded report carries check number i.
C8_Original ==
    \A i \in 1..Len(reportHistory) : reportHistory[i].checkNumber = i

\* The velocity contribution of a row of the workflow's result to riskScore.
velocityContribution(res, i) ==
    IF res.isFirstRun THEN 0
    ELSE velocityScoreOf([velocityBps |-> res.protocols[i].velocityBps,
                          velocityNegative |-> res.protocols[i].velocityNegative])

\* C9 as stated: in a cycle, a protocol the ledger holds no entry for has no
\* velocity alert and a velocity contribution of 0.
C9_Original ==
    [][totalChecks' # totalChecks
       => \A i \in 1..Len(lastResult'.protocols) :
              ~InSeq(lastResult'.protocols[i].name, trackedProtocols)
              => /\ ~lastResult'.protocols[i].velocityAlert
                 /\ velocityContribution(lastResult', i) = 0]_vars

\* C10 as stated: a cycle is a first run exactly when every previous
\* utilization of its batch is 0 and the ledger holds no report.
C10_Original ==
    [][totalChecks' # totalChecks
       => (lastResult'.isFirstRun
           <=> /\ \A i \in 1..Len(lastResult'.protocols) :
                      previousUtilization[lastResult'.protocols[i].name] = 0
               /\ totalChecks = 0)]_vars

\* C11 as stated: the previous utilization a cycle reads for a protocol is the
\* utilization the immediately preceding cycle computed for that protocol.
C11_Original ==
    [][totalChecks' # totalChecks
       => \A i \in 1..Len(lastResult'.protocols), j \in 1..Len(lastResult.protocols) :
              lastResult'.protocols[i].name = lastResult.protocols[j].name
              => previousUtilization[lastResult.protocols[j].name]
                 = lastResult.protocols[j].utilizationBps]_vars

\* The severity rule of the specification on an integer risk score and the
\* worst solvency in basis points, as written to the ledger.
SeverityTable(riskScore, worstSolvencyBps) ==
    IF riskScore < 30 /\ worstSolvencyBps >= 9500 THEN 0
    ELSE IF riskScore < 60 /\ worstSolvencyBps >= 9000 THEN 1
    ELSE CRITICAL

\* C12: the severity of every report a workflow writes is the table's value
\* for the report's riskScore and worst solvency: HEALTHY iff riskScore < 30
\* and worst >= 9500, else WARNING iff riskScore < 60 and worst >= 9000, else
\* CRITICAL.
C12_SeverityFromRiskAndWorst ==
    \A i \in 1..Len(reportHistory) :
        reportHistory[i].severity
        = SeverityTable(reportHistory[i].riskScore, reportHistory[i].globalRatio)

\* A fully backed batch whose riskScore is exactly 30: WARNING, not HEALTHY.
C12_Witness ==
    /\ latestReport.riskScore = 30
    /\ latestReport.globalRatio = 10000
    /\ latestReport.severity = 1
    /\ lastResult.severity = 1

\* The aggregate report in the ledger is the one of the workflow's last
\* result, and the guard holds its global push.
AggregateApplied ==
    /\ Linked
    /\ Len(lastResult.protocols) = 1
    /\ latestReport.checkNumber = lastResult.checkNumber
    /\ latestReport.severity = lastResult.severity
    /\ currentSeverity = latestReport.severity
    /\ globalPaused = (latestReport.severity = CRITICAL)

\* C13 as stated, for a one-protocol cycle (its solvency in basis points is
\* the report's globalRatio): if the solvency is below 9000 the severity is
\* CRITICAL, and once the per-protocol push is applied on top of the
\* aggregate push the guard shows the protocol paused and globalPaused true.
C13_Original ==
    [][(AggregateApplied /\ latestReport.globalRatio < 9000 /\ reporterSubmit(Owner))
       => /\ latestReport.severity = CRITICAL
          /\ protocolStatus'[lastResult.protocols[1].name].paused
          /\ globalPaused']_vars

\* Scenario A in millions of USD: claimed 100, actual 65 + 30 = 95, total TVL
\* 1000 (a share of 10%, inside the expected range).
ScenarioA == [supply |-> 1000, liquid |-> 650, borrows |-> 300]

\* C14 as stated: the single-protocol cycle on scenario A ends with riskScore
\* 30 and severity WARNING.
C14_Original ==
    [][singleProtocolWorkflow(1, ScenarioA, 1000, TRUE)
       => (latestReport'.riskScore = 30 /\ latestReport'.severity = 1)]_vars

\* C14 as amended: solvency 9500 is not below 9500, so the single-protocol
\* cycle on scenario A gets no solvency contribution and ends with riskScore
\* 0 and severity HEALTHY; the multi-protocol weights give 0 as well.
C14_ScenarioAHealthy ==
    [][singleProtocolWorkflow(1, ScenarioA, 1000, TRUE)
       => /\ latestReport'.globalRatio = 9500
          /\ latestReport'.riskScore = 0
          /\ latestReport'.severity = 0
          /\ ~latestReport'.anomalyDetected
          /\ solvencyScoreOf([solvencyRatio |-> Ratio(95, 100)]) = 0]_vars

\* The report of a single-protocol cycle on scenario A is in the ledger.
C14_Witness ==
    /\ totalChecks >= 1
    /\ lastResult.protocols = <<>>
    /\ latestReport.checkNumber = lastResult.checkNumber
    /\ latestReport.globalRatio = 9500
    /\ latestReport.riskScore = 0
    /\ latestReport.severity = 0

\* C15: the riskScore of every report written by a cycle, and of every
\* workflow result, is an integer between 0 and 100.
C15_RiskScoreInRange ==
    /\ \A i \in 1..Len(reportHistory) : reportHistory[i].riskScore \in 0..100
    /\ latestReport.riskScore \in 0..100
    /\ lastResult.riskScore \in 0..100

\* A two-protocol cycle whose solvency and velocity contributions alone add
\* up to 35 + 15 + 35 + 15 reports the maximum.
C15_Witness ==
    /\ Len(lastResult.protocols) = 2
    /\ ~lastResult.isFirstRun
    /\ lastResult.protocols[1].solvency = 7900
    /\ lastResult.protocols[1].velocityBps >= 1500
    /\ ~lastResult.protocols[1].velocityNegative
    /\ lastResult.protocols[2].solvency = 9200
    /\ lastResult.protocols[2].velocityBps = 800
    /\ ~lastResult.protocols[2].velocityNegative
    /\ lastResult.riskScore = 100
    /\ latestReport.riskScore = 100

\* The velocity rule of the specification on deltaBps = current - previous.
ExpectedVelocityRisk(deltaBps) ==
    IF deltaBps >= 1500 THEN 35
    ELSE IF deltaBps >= 500 THEN 15
    ELSE IF deltaBps <= -500 THEN 10
    ELSE 0

\* The riskScore of a non-first two-protocol cycle on the given reads when
\* each protocol's velocity contributes what the rule says.
ExpectedRiskScore(reads, tvlMap) ==
    LET config == <<ProtoP1, ProtoP2>>
        results == [i \in 1..2 |-> readProtocol(config[i], reads[config[i].name])]
    IN  clampRisk(
            SumSeq([i \in 1..2 |-> solvencyScoreOf(results[i])], 1)
            + SumSeq([i \in 1..2 |-> crossRefOf(results[i], tvlMap[config[i].defiLlamaSlug])], 1)
            + SumSeq([i \in 1..2 |->
                         ExpectedVelocityRisk(results[i].utilizationBps
                                              - previousUtilization[config[i].name])], 1))

\* C16: in a cycle that is not a first run, a protocol's velocity alert is
\* set exactly when |current - previous utilization| >= 500, and the
\* riskScore contains +15 for a rise in [500, 1500), +35 for a rise >= 1500,
\* +10 for a fall >= 500 and 0 otherwise for each protocol.
C16_VelocityAlertAndRisk ==
    [][\A reads \in ScoreReads, tvlMap \in ScoreTvlMaps :
          (/\ healthCheckWorkflow(<<ProtoP1, ProtoP2>>, reads, tvlMap, TRUE, TRUE)
           /\ ~lastResult'.isFirstRun)
          => /\ \A i \in 1..2 :
                    lastResult'.protocols[i].velocityAlert
                    <=> Abs(lastResult'.protocols[i].utilizationBps
                            - previousUtilization[lastResult'.protocols[i].name]) >= 500
             /\ lastResult'.riskScore = ExpectedRiskScore(reads, tvlMap)]_vars

\* A rise of exactly 500 bps (3000 to 3500) and a fall of 800 bps in one
\* cycle: two alerts, 15 + 10 risk.
C16_Witness ==
    /\ Len(lastResult.protocols) = 2
    /\ ~lastResult.isFirstRun
    /\ lastResult.protocols[1].utilizationBps = 3500
    /\ lastResult.protocols[1].velocityBps = 500
    /\ ~lastResult.protocols[1].velocityNegative
    /\ lastResult.protocols[1].velocityAlert
    /\ lastResult.protocols[2].velocityBps = 800
    /\ lastResult.protocols[2].velocityNegative
    /\ lastResult.protocols[2].velocityAlert
    /\ lastResult.riskScore = 25

\* Some protocol of the configuration has an unknown type or a failing read.
cycleThrows(config, reads) ==
    \E i \in 1..Len(config) : readThrows(config[i], reads[config[i].name])

\* C17: a cycle whose configuration holds a protocol of unknown type, or one
\* of whose reads fails, writes no report and changes no ledger state, no
\* guard state and no workflow result.
C17_BadProtocolAbortsCycle ==
    [][\A config \in Configs \cup BadConfigs, reads \in Reads \cup FailedReads :
          cycleThrows(config, reads) =>
              \A tvlMap \in TvlMaps, prevOk \in BOOLEAN :
                  healthCheckWorkflow(config, reads, tvlMap, TRUE, prevOk)
                  => UNCHANGED <<guardVars, ledgerVars, lastResult>>]_vars

\* After one stored cycle with its batch, cycles with an unknown type and
\* with a failing read are started and leave every variable as it is.
C17_Witness ==
    /\ totalChecks = 1
    /\ trackedProtocols = <<"P1">>
    /\ \A config \in BadConfigs, reads \in Reads :
           ENABLED (healthCheckWorkflow(config, reads, NoTvl, TRUE, TRUE) /\ UNCHANGED vars)
    /\ \A reads \in FailedReads :
           ENABLED (/\ healthCheckWorkflow(<<ProtoP1, ProtoP2>>, reads, NoTvl, TRUE, TRUE)
                    /\ UNCHANGED vars)

\* C18: a per-protocol write whose arrays differ in length is rejected and
\* leaves every variable of the ledger and of the guard as it was.
C18_MismatchedLengthsRejected ==
    [][(Len(lastResult.protocols) > 0 /\ ~UNCHANGED <<guardVars, ledgerVars>>)
          => \A b \in Mismatched(batchOf(lastResult)) :
                 ~submitProtocolData(Owner, lastResult.checkNumber, b)]_vars

\* After a cycle, with guard and ledger linked, each batch with one array
\* too long is sent and the call is rejected.
C18_Witness ==
    /\ Linked
    /\ reverted
    /\ Len(lastResult.protocols) > 0
    /\ \A b \in Mismatched(batchOf(lastResult)) :
           ENABLED (/\ submitProtocolData(Owner, lastResult.checkNumber, b)
                    /\ reverted'
                    /\ UNCHANGED <<guardVars, ledgerVars>>)

\* C19: a register call that is accepted leaves the caller active with
\* exactly the list passed, whatever was stored before, and a register call
\* of an active caller with the list it already has leaves the
\* registrations, the registered count and the registered list unchanged.
C19_RegisterIsIdempotentReplace ==
    [][\A sender \in Consumers, watchList \in WatchLists \cup {FullWatchList} :
          register(sender, watchList) =>
              /\ registrations'[sender] = [active |-> TRUE, watchedProtocols |-> watchList]
              /\ (registrations[sender] = [active |-> TRUE, watchedProtocols |-> watchList]
                  => UNCHANGED <<registrations, totalRegisteredCount, registeredList>>)]_vars

\* Both consumers are registered with different non-empty lists, the last
\* call was accepted, and each may repeat its call without a change.
C19_Witness ==
    /\ ~reverted
    /\ totalRegisteredCount = 2
    /\ \E a, b \in Consumers :
           /\ a # b
           /\ registrations[a] = [active |-> TRUE, watchedProtocols |-> <<"P1">>]
           /\ registrations[b] = [active |-> TRUE, watchedProtocols |-> <<"P2", "P1">>]
           /\ ENABLED (/\ register(a, <<"P1">>)
                       /\ UNCHANGED <<registrations, totalRegisteredCount,
                                      registeredList>>)

\* C20: a register call with more than MAX_WATCHED names changes nothing in
\* the guard, and no stored watch-list is ever longer than MAX_WATCHED.
C20_LongWatchListRejected ==
    /\ [](\A c \in Consumers : Len(registrations[c].watchedProtocols) <= MAX_WATCHED)
    /\ [][\A sender \in Consumers :
             register(sender, LongWatchList) => (reverted' /\ UNCHANGED guardVars)]_vars

\* A consumer holds a list of MAX_WATCHED names, and its call with one name
\* more has just been rejected.
C20_Witness ==
    /\ reverted
    /\ \E c \in Consumers :
           /\ registrations[c] = [active |-> TRUE, watchedProtocols |-> FullWatchList]
           /\ ENABLED (register(c, LongWatchList) /\ reverted' /\ UNCHANGED guardVars)

\* C21: when an active registrant deregisters, isSafe of its address is true
\* after the call, and stays true over every step in which the address is
\* not registered again, whatever is paused.
C21_DeregisteredStaysSafe ==
    [][\A c \in Consumers :
          \/ registrations[c].active /\ deregister(c)
          \/ (~registrations[c].active
              /\ \A w \in WatchLists : ~(register(c, w) /\ ~reverted'))
          => isSafe(c)']_vars

\* A consumer that watched P1 has deregistered; P1 is paused and so is the
\* guard as a whole, and isSafe of the consumer is true.
C21_Witness ==
    \E c \in Consumers :
        /\ \E i \in 1..Len(registeredList) : registeredList[i] = c
        /\ ~registrations[c].active
        /\ registrations[c].watchedProtocols = <<"P1">>
        /\ protocolStatus["P1"].paused
        /\ globalPaused
        /\ isSafe(c)

\* The number of pause flags, global or of a protocol, that a step turns
\* from false to true.
Rises ==
    Cardinality({n \in Names : ~protocolStatus[n].paused /\ protocolStatus'[n].paused})
    + (IF ~globalPaused /\ globalPaused' THEN 1 ELSE 0)

\* C22: every call leaves totalPauseEvents increased by one for a pause flag
\* it turns from false to true and unchanged otherwise; the counter never
\* decreases.
C22_PauseEventsCountRises ==
    [][totalPauseEvents' = totalPauseEvents + Rises]_vars

\* Three pauses were counted, of which two are still in force: one flag
\* was cleared and raised again.
C22_Witness ==
    /\ totalPauseEvents = 3
    /\ globalPaused
    /\ protocolStatus["P1"].paused
    /\ ~protocolStatus["P2"].paused
    /\ protocolStatus["P2"].lastCheckNumber = 0

\* The active registrants whose watch-list holds the name.
ActiveWatchers(name) ==
    {c \in Consumers :
        /\ registrations[c].active
        /\ \E j \in 1..Len(registrations[c].watchedProtocols) :
               registrations[c].watchedProtocols[j] = name}

\* C23: when a protocol becomes paused, the affected count of the
\* notification, _countAffected of its name, is the number of distinct active
\* registrants that watch the name.
C23_Original ==
    [][\A name \in Names :
          (~protocolStatus[name].paused /\ protocolStatus'[name].paused)
          => _countAffected(name) = Cardinality(ActiveWatchers(name))]_vars

\* The guard was unpaused by hand after a CRITICAL update: the recorded
\* severity is still CRITICAL and the global pause is off.
ManuallyUnpaused == ~globalPaused /\ currentSeverity = CRITICAL

\* C24: under a global pause, the owner's manualUnpause with the empty name
\* leaves isGloballyPaused false whatever was written before it, and, with
\* guard and ledger linked, the next report processed after it leaves the
\* guard paused exactly when that report is CRITICAL.
C24_ManualUnpauseThenNextReport ==
    [][/\ (globalPaused /\ manualUnpause(Owner, "")) => ~isGloballyPaused'
       /\ (ManuallyUnpaused /\ Linked /\ totalChecks' # totalChecks)
          => (isGloballyPaused' = (latestReport'.severity = CRITICAL))]_vars

\* A CRITICAL report paused the guard and the owner has unpaused it: the
\* latest report is still CRITICAL and the guard is not paused.
C24_Witness ==
    /\ Linked
    /\ ManuallyUnpaused
    /\ latestReport.severity = CRITICAL
    /\ totalPauseEvents >= 1
    /\ ~reverted

\* The protocol was unpaused by hand: its stored solvency is below the pause
\* threshold and its paused flag is off.
HandUnpaused(name) ==
    /\ ~protocolStatus[name].paused
    /\ protocolStatus[name].lastCheckNumber > 0
    /\ protocolStatus[name].solvency < SOLVENCY_PAUSE_THRESHOLD

\* C25: the owner's manualUnpause of a name clears the paused flag of that
\* name and changes nothing else in the guard, and the next
\* updateProtocolStatus of the name sets paused from the solvency it pushes.
C25_ManualUnpauseOfOneProtocol ==
    [][\A name \in Names :
          /\ manualUnpause(Owner, name)
             => /\ protocolStatus' = [protocolStatus EXCEPT ![name].paused = FALSE]
                /\ UNCHANGED <<oracle, guardGlobalVars, totalPauseEvents, guardRegVars>>
          /\ HandUnpaused(name)
             => \A solvency \in Solvencies :
                    (updateProtocolStatus(oracle, name, solvency, 1) /\ ~reverted')
                    => (protocolStatus'[name].paused
                            = (solvency < SOLVENCY_PAUSE_THRESHOLD))]_vars

\* P1 was paused at solvency 8500 and unpaused by hand while the guard is
\* globally paused and P2 is paused: P1 keeps its solvency and warning flag.
C25_Witness ==
    /\ HandUnpaused("P1")
    /\ protocolStatus["P1"].warning
    /\ protocolStatus["P2"].paused
    /\ globalPaused
    /\ \E c \in Consumers : registrations[c].active
    /\ ~reverted

\* The processed reports, by index in reportHistory, of a given severity.
WithSeverity(severity) ==
    {i \in 1..Len(reportHistory) : reportHistory[i].severity = severity}

\* The largest riskScore among the processed reports, 0 when there are none.
PeakRisk ==
    IF reportHistory = <<>> THEN 0
    ELSE CHOOSE r \in {reportHistory[i].riskScore : i \in 1..Len(reportHistory)} :
             \A i \in 1..Len(reportHistory) : reportHistory[i].riskScore <= r

\* The counters of the ledger agree with the history of processed reports.
CountersMatchHistory ==
    /\ totalChecks = Len(reportHistory)
    /\ totalWarnings = Cardinality(WithSeverity(1))
    /\ totalCritical = Cardinality(WithSeverity(CRITICAL))
    /\ highestRiskScore = PeakRisk

\* C26 as stated: the counters agree with the history and, once a report is
\* processed, highestRiskCheckNumber is the check number of a processed
\* report with the peak riskScore.
C26_Original ==
    /\ CountersMatchHistory
    /\ reportHistory # <<>> =>
           \E i \in 1..Len(reportHistory) :
               /\ reportHistory[i].riskScore = highestRiskScore
               /\ reportHistory[i].checkNumber = highestRiskCheckNumber

\* C26: the counters agree with the history; highestRiskCheckNumber is 0
\* while every processed report has riskScore 0, and otherwise the check
\* number of the first processed report with the peak riskScore.
C26_StatisticsMatchHistory ==
    /\ CountersMatchHistory
    /\ IF highestRiskScore = 0
       THEN highestRiskCheckNumber = 0
       ELSE \E i \in 1..Len(reportHistory) :
                /\ reportHistory[i].riskScore = highestRiskScore
                /\ reportHistory[i].checkNumber = highestRiskCheckNumber
                /\ \A j \in 1..(i - 1) : reportHistory[j].riskScore < highestRiskScore

\* A CRITICAL report with riskScore 85 was followed by a WARNING report with
\* a lower riskScore: the peak stays with the first.
C26_Witness ==
    /\ Len(reportHistory) = 2
    /\ reportHistory[1].severity = CRITICAL
    /\ reportHistory[1].riskScore = 85
    /\ reportHistory[2].severity = 1
    /\ reportHistory[2].riskScore < 85
    /\ totalWarnings = 1
    /\ totalCritical = 1
    /\ highestRiskCheckNumber = reportHistory[1].checkNumber

\* C27: in the result of every cycle, a protocol of any type whose claimed
\* amount is 0 has solvency 10000, and a cycle of such protocols alone
\* reports 10000 as its worst solvency.
C27_EmptyPoolIsFullySolvent ==
    /\ \A i \in 1..Len(lastResult.protocols) :
           lastResult.protocols[i].details.claimed = 0
           => lastResult.protocols[i].solvency = 10000
    /\ (/\ lastResult.protocols # <<>>
        /\ \A i \in 1..Len(lastResult.protocols) :
               lastResult.protocols[i].details.claimed = 0)
       => latestReport.globalRatio = 10000

\* A compound market and a lido pool, both with claimed 0 and assets
\* above 0, were read in one cycle: both results carry solvency 10000.
C27_Witness ==
    /\ Len(lastResult.protocols) = 2
    /\ lastResult.protocols[1].type = "compound"
    /\ lastResult.protocols[2].type = "lido"
    /\ \A i \in 1..2 : /\ lastResult.protocols[i].details.claimed = 0
                       /\ lastResult.protocols[i].details.actual > 0
                       /\ lastResult.protocols[i].solvency = 10000
    /\ latestReport.globalRatio = 10000
    /\ latestReport.severity = 0

\* The results of step 1 for a configuration and its reads.
resultsOf(config, reads) ==
    [i \in 1..Len(config) |-> readProtocol(config[i], reads[config[i].name])]

\* The smallest floored solvency among the results of a cycle.
MinSolvencyBps(results) ==
    CHOOSE m \in {RatFloor(results[i].solvencyRatio) : i \in 1..Len(results)} :
        \A i \in 1..Len(results) : m <= RatFloor(results[i].solvencyRatio)

\* C28 as stated: the worst solvency a cycle reports is the minimum of the
\* solvency, in basis points, of its protocol results.
C28_Original ==
    [][\A config \in TypeConfigs, reads \in TypeReads, tvlMap \in TvlMaps :
          healthCheckWorkflow(config, reads, tvlMap, TRUE, TRUE)
          => latestReport'.globalRatio = MinSolvencyBps(resultsOf(config, reads))]_vars

\* C29 as stated: in a cycle without reference TVL, every protocol adds a
\* penalty above 0 to the cross-reference risk, so that the cycle reports
\* an anomaly.
C29_Original ==
    [][\A config \in TypeConfigs, reads \in TypeReads :
          healthCheckWorkflow(config, reads, NoTvl, TRUE, TRUE)
          => /\ \A i \in 1..Len(config) :
                    crossRefOf(resultsOf(config, reads)[i],
                               NoTvl[config[i].defiLlamaSlug]) > 0
             /\ lastResult'.anomalyDetected]_vars

\* C30 as stated: in every cycle, with or without reference TVL, a lido
\* protocol whose solvency is below 9900 adds 20 to the cross-reference
\* risk.
C30_Original ==
    [][\A config \in TypeConfigs, reads \in TypeReads, tvlMap \in TvlMaps :
          healthCheckWorkflow(config, reads, tvlMap, TRUE, TRUE)
          => \A i \in 1..Len(config) :
                 (/\ config[i].type = "lido"
                  /\ RatLt(resultsOf(config, reads)[i].solvencyRatio, 9900))
                 => crossRefOf(resultsOf(config, reads)[i],
                               tvlMap[config[i].defiLlamaSlug]) = 20]_vars

\* C31: a cycle whose read of totalChecks fails writes its report under
\* check number 1: the ledger counts one more check, and the result the
\* cycle returns carries check number 1 and the protocol's row.
C31_CounterReadFailureUsesCheckOne ==
    [][\A reads \in SeverityReads :
          (~UNCHANGED <<lastResult, totalChecks>>
           /\ healthCheckWorkflow(<<ProtoP1>>, reads, NoTvl, FALSE, TRUE))
          => /\ ~reverted'
             /\ totalChecks' = totalChecks + 1
             /\ Len(reportHistory') = Len(reportHistory) + 1
             /\ latestReport'.checkNumber = 1
             /\ lastResult'.checkNumber = 1
             /\ Len(lastResult'.protocols) = 1]_vars

\* The ledger holds two reports and the later one, written by a cycle that
\* could not read totalChecks, carries check number 1.
C31_Witness ==
    /\ totalChecks = 2
    /\ Len(reportHistory) = 2
    /\ latestReport.checkNumber = 1
    /\ lastResult.checkNumber = 1
    /\ Len(lastResult.protocols) = 1
    /\ ~reverted

(***************************************************************************)
(* The ledger under batches sent directly with the reporter's key: any     *)
(* check number, at any distance in time from the batch before.            *)
(***************************************************************************)
MaxRollup == 3

BatchOne ==
    [names |-> <<"P1">>, types |-> <<"aave">>, chains |-> <<"ethereum">>,
     claimed |-> <<1000>>, actual |-> <<850>>, solvencyRatios |-> <<8500>>,
     utilizations |-> <<8000>>, velocityBps |-> <<0>>,
     velocityNegative |-> <<FALSE>>]

BatchTwo ==
    [names |-> <<"P1", "P2">>, types |-> <<"aave", "lido">>,
     chains |-> <<"ethereum", "ethereum">>,
     claimed |-> <<500, 200>>, actual |-> <<500, 184>>,
     solvencyRatios |-> <<10000, 9200>>,
     utilizations |-> <<2000, 0>>, velocityBps |-> <<0, 0>>,
     velocityNegative |-> <<FALSE, FALSE>>]

DirectBatches == {BatchOne, BatchTwo}

CheckNumbers == 1..MaxChecks

StaleSets == SUBSET {"ethereum"}

DirectSubmit ==
    /\ totalPauseEvents < MaxPauseEvents
    /\ \E sender \in {Owner, Stranger}, checkNumber \in CheckNumbers,
          b \in DirectBatches, stale \in StaleSets :
          /\ submitProtocolDataAt(stale, sender, checkNumber, b)
          /\ \A c \in DOMAIN chainStats' : chainStats'[c].protocolCount <= MaxRollup

NextBatch ==
    \/ SetOracle
    \/ SetGuard
    \/ SimulateHealthy
    \/ DirectSubmit

SpecBatch == Init /\ [][NextBatch]_vars

\* C32: a batch whose check number has no stored aggregate report is
\* rejected and leaves the ledger's and the guard's state as it was.
C32_Original ==
    [][\A checkNumber \in CheckNumbers, b \in DirectBatches, stale \in StaleSets :
          (/\ getReport(checkNumber) = ZeroReport
           /\ submitProtocolDataAt(stale, Owner, checkNumber, b))
          => (reverted' /\ UNCHANGED <<guardVars, ledgerVars>>)]_vars

\* The rollup of one chain over the protocols of batch b alone.
batchRollup(b, chain) ==
    [totalReserves |->
         SumSeq([i \in 1..Len(b.names) |->
                    IF b.chains[i] = chain THEN b.actual[i] ELSE 0], 1),
     totalClaimed |->
         SumSeq([i \in 1..Len(b.names) |->
                    IF b.chains[i] = chain THEN b.claimed[i] ELSE 0], 1),
     protocolCount |->
         SumSeq([i \in 1..Len(b.names) |->
                    IF b.chains[i] = chain THEN 1 ELSE 0], 1)]

\* C37: after a batch is written, the rollup of each chain it names is the
\* sum over that batch's protocols on the chain, whatever the time since the
\* batch before it.
C37_Original ==
    [][\A checkNumber \in CheckNumbers, b \in DirectBatches, stale \in StaleSets :
          (submitProtocolDataAt(stale, Owner, checkNumber, b) /\ ~reverted')
          => \A i \in 1..Len(b.chains) :
                 Get(chainStats', b.chains[i], ZeroChainStats)
                     = batchRollup(b, b.chains[i])]_vars

\* C38: the check number the guard stores with a protocol's status never
\* decreases, and a batch carrying a check number older than the stored one
\* leaves the status, the latest snapshot and the velocity baseline of that
\* protocol as the newer cycle wrote them.
C38_Original ==
    [][\A name \in Names :
          /\ protocolStatus'[name].lastCheckNumber
                 >= protocolStatus[name].lastCheckNumber
          /\ \A checkNumber \in CheckNumbers, b \in DirectBatches,
                stale \in StaleSets :
                (/\ checkNumber < protocolStatus[name].lastCheckNumber
                 /\ submitProtocolDataAt(stale, Owner, checkNumber, b))
                => /\ protocolStatus'[name] = protocolStatus[name]
                   /\ Get(latestProtocolData', name, ZeroProtocolReport)
                          = Get(latestProtocolData, name, ZeroProtocolReport)
                   /\ Get(previousUtilization', name, 0)
                          = Get(previousUtilization, name, 0)]_vars

\* C34: the per-protocol statuses and the global pause flag change only in
\* a push whose caller is the configured oracle or in the owner's manual
\* unpause; a push from any other caller and a manual unpause by any other
\* caller are rejected and leave the guard's state as it was.
C34_StatusChangesOnlyByOracleOrOwner ==
    [][/\ ~UNCHANGED <<protocolStatus, globalPaused>>
          => \/ /\ oracle = LedgerAddr
                /\ \E severity \in Severities : updateGlobalStatus(LedgerAddr, severity)
             \/ /\ oracle = LedgerAddr
                /\ \E name \in Names, solvency \in Solvencies :
                       updateProtocolStatus(LedgerAddr, name, solvency, 1)
             \/ \E protocolName \in {""} \cup Names : manualUnpause(Owner, protocolName)
       /\ ~(reverted' /\ UNCHANGED guardVars)
          => /\ \A sender \in {LedgerAddr, Stranger} \ {oracle} :
                   /\ \A severity \in Severities : ~updateGlobalStatus(sender, severity)
                   /\ \A name \in Names, solvency \in Solvencies :
                          ~updateProtocolStatus(sender, name, solvency, 1)
             /\ \A protocolName \in {""} \cup Names :
                    ~manualUnpause(Stranger, protocolName)]_vars

\* A push or an unpause was rejected while the guard is paused globally and
\* for a protocol, after pushes by the oracle.
C34_Witness ==
    /\ reverted
    /\ oracle = LedgerAddr
    /\ globalPaused
    /\ protocolStatus["P1"].paused
    /\ ~protocolStatus["P2"].paused
    /\ protocolStatus["P2"].lastCheckNumber = 1

\* C36: totalRegisteredCount is the number of addresses whose registration
\* is active, and it is never negative.
C36_CountMatchesActiveRegistrations ==
    /\ totalRegisteredCount = Cardinality({c \in Consumers : registrations[c].active})
    /\ totalRegisteredCount >= 0

\* One consumer registered, deregistered and registered again: the list
\* holds its address twice and the count is one.
C36_Witness ==
    /\ Len(registeredList) = 2
    /\ registeredList[1] = registeredList[2]
    /\ registrations[registeredList[1]].active
    /\ totalRegisteredCount = 1

\* C39: while the guard is paused globally its current severity is CRITICAL.
C39_GlobalPauseImpliesCritical ==
    globalPaused => currentSeverity = CRITICAL

\* Paused globally for the second time, after a manual unpause or a milder
\* push in between.
C39_Witness ==
    /\ globalPaused
    /\ currentSeverity = CRITICAL
    /\ totalPauseEvents >= 2

\* C40: every protocol that is paused is also under warning.
C40_PausedImpliesWarning ==
    \A name \in Names : protocolStatus[name].paused => protocolStatus[name].warning

\* One protocol paused and under warning, the other under warning without
\* being paused.
C40_Witness ==
    /\ protocolStatus["P1"].paused
    /\ protocolStatus["P1"].warning
    /\ protocolStatus["P2"].warning
    /\ ~protocolStatus["P2"].paused
    /\ protocolStatus["P2"].solvency = 9200

\* C35: every step that appends an aggregate report or changes the latest
\* report or the statistics of the ledger is a report delivered by the
\* authorized forwarder, which is how a workflow cycle writes it.
C35_Original ==
    [][~UNCHANGED reportVars
       => \E reads \in SeverityReads, checksOk \in BOOLEAN :
              healthCheckWorkflow(<<ProtoP1>>, reads, NoTvl, checksOk, TRUE)]_vars

(***************************************************************************)
(* The ledger with an EmergencyController: the owner links the two in      *)
(* either order, reports arrive from workflow cycles and simulateCritical, *)
(* and the owner resumes after a pause.                                    *)
(***************************************************************************)
SetEmergencyController ==
    \E sender \in {Owner, Stranger} : setEmergencyController(sender, ControllerAddr)

ControllerSetOracle ==
    \E sender \in {Owner, Stranger} : controllerSetOracle(sender, LedgerAddr)

ResumeProtocol == \E sender \in {Owner, Stranger} : resumeProtocol(sender)

NextEmergency ==
    \/ SetEmergencyController
    \/ ControllerSetOracle
    \/ RunCycle
    \/ SimulateCritical
    \/ ResumeProtocol

SpecEmergency == Init /\ [][NextEmergency]_vars

\* C33: with the controller linked to the ledger and the ledger set as the
\* controller's oracle, every step in which the ledger processes a report
\* of CRITICAL severity ends with the controller paused.
C33_Original ==
    [][(/\ emergencyController = ControllerAddr
        /\ controllerOracle = LedgerAddr
        /\ Len(reportHistory') = Len(reportHistory) + 1
        /\ latestReport'.severity = CRITICAL)
       => isPaused']_vars

====
